---- MODULE Spec2Model ----
(***************************************************************************)
(* rlb: a small HTTP/1.x load balancer.  The model covers the backend pool *)
(* (src/src/backend.rs), the balancing algorithms (src/src/balancing.rs),  *)
(* the HTTP parser (src/src/http.rs) and the prober and connection handler *)
(* tasks that share the pool behind a mutex (src/src/server.rs).           *)
(*                                                                         *)
(* Byte strings are sequences of one-character strings; CR, LF and NUL are *)
(* the three characters that have no printable spelling.                   *)
(***************************************************************************)
EXTENDS Integers, Sequences, FiniteSets, TLC

\* ------------------------------------------------------------------ bounds
\* number of backends in the configured pool
N == 2
\* number of connection handler tasks that can be alive at the same time
NumHandlers == 2
\* largest byte count one socket write or read reports
MaxBytes == 2
\* the round-robin run that is remembered spans MaxK full cycles
MaxK == 2

\* --------------------------------------------------------------- constants
\* Option::None of an Option<usize>
NONE == -1
\* pool size of the round-robin scenario (tests/balancing.rs)
TestPoolSize == 4

CR == "CR"
LF == "LF"
NUL == "NUL"
SP == " "
CRLF == <<CR, LF>>
CRLFCRLF == <<CR, LF, CR, LF>>
Whitespace == {SP, CR, LF, "\t"}
Digits == <<"0", "1", "2", "3", "4", "5", "6", "7", "8", "9">>

\* ------------------------------------------------------- string primitives
Min(S) == CHOOSE x \in S : \A y \in S : x <= y

\* str::starts_with
StartsWith(s, p) == Len(s) >= Len(p) /\ SubSeq(s, 1, Len(p)) = p

\* positions at which the pattern p occurs in s
Occurrences(s, p) ==
  {i \in 1..(Len(s) - Len(p) + 1) : SubSeq(s, i, i + Len(p) - 1) = p}

\* str::split(pattern): the pieces between the non-overlapping occurrences
\* of the pattern, taken left to right; always at least one piece
RECURSIVE Split(_, _)
Split(s, p) ==
  IF Occurrences(s, p) = {}
  THEN <<s>>
  ELSE LET i == Min(Occurrences(s, p))
       IN  <<SubSeq(s, 1, i - 1)>> \o Split(SubSeq(s, i + Len(p), Len(s)), p)

\* str::split_whitespace: the maximal runs of non-whitespace characters
RECURSIVE SplitWhitespace(_)
SplitWhitespace(s) ==
  LET starts == {i \in 1..Len(s) : s[i] \notin Whitespace}
  IN  IF starts = {}
      THEN <<>>
      ELSE LET b == Min(starts)
               ends == {i \in b..Len(s) : s[i] \in Whitespace}
               e == IF ends = {} THEN Len(s) + 1 ELSE Min(ends)
           IN  <<SubSeq(s, b, e - 1)>> \o SplitWhitespace(SubSeq(s, e, Len(s)))

\* str::trim: strip leading and trailing whitespace
Trim(s) ==
  LET keep == {i \in 1..Len(s) : s[i] \notin Whitespace}
  IN  IF keep = {} THEN <<>>
      ELSE SubSeq(s, Min(keep), CHOOSE j \in keep : \A k \in keep : k <= j)

\* str::trim_matches(c): strip leading and trailing occurrences of c
TrimMatches(s, c) ==
  LET keep == {i \in 1..Len(s) : s[i] # c}
  IN  IF keep = {} THEN <<>>
      ELSE SubSeq(s, Min(keep), CHOOSE j \in keep : \A k \in keep : k <= j)

\* value of an ASCII digit, or 10 for any other byte: the code computes
\* byte.wrapping_sub(b'0'), which exceeds 9 for every non-digit
DigitValue(c) ==
  IF \E d \in 1..10 : Digits[d] = c
  THEN (CHOOSE d \in 1..10 : Digits[d] = c) - 1
  ELSE 10

\* ------------------------------------------------------------- HTTP parser
S_HTTP == <<"H", "T", "T", "P">>
S_HTTP10 == <<"H", "T", "T", "P", "/", "1", ".", "0">>
S_HTTP11 == <<"H", "T", "T", "P", "/", "1", ".", "1">>
S_GET == <<"G", "E", "T">>
S_POST == <<"P", "O", "S", "T">>
S_PUT == <<"P", "U", "T">>
S_DELETE == <<"D", "E", "L", "E", "T", "E">>
S_CONNECT == <<"C", "O", "N", "N", "E", "C", "T">>
S_HEAD == <<"H", "E", "A", "D">>
S_SLASH == <<"/">>
S_COLON == <<":">>

PANIC == [kind |-> "panic"]

\* HttpVersion::from_str: "V10", "V11", or "panic" for any other prefix
HttpVersion_from_str(s) ==
  IF StartsWith(s, S_HTTP10) THEN "V10"
  ELSE IF StartsWith(s, S_HTTP11) THEN "V11"
  ELSE "panic"

\* StatusCode::from_str: the code of the first three bytes, or NONE (Err)
StatusCode_from_str(str) ==
  IF Len(str) < 3 THEN NONE
  ELSE LET a == DigitValue(str[1])
           b == DigitValue(str[2])
           c == DigitValue(str[3])
       IN  IF a = 0 \/ a > 5 \/ b > 9 \/ c > 9 THEN NONE
           ELSE (a * 100) + (b * 10) + c

\* the header lines after the start line, each split at ":"
HeaderLines(c0) ==
  LET hdr_content == Split(c0, CRLF)
  IN  [i \in 1..(Len(hdr_content) - 1) |-> Split(hdr_content[i + 1], S_COLON)]

\* the headers map: later lines overwrite earlier ones with the same name
RECURSIVE InsertHeaders(_, _, _)
InsertHeaders(kvs, i, map) ==
  IF i > Len(kvs) THEN map
  ELSE InsertHeaders(kvs, i + 1,
         [k \in (DOMAIN map) \cup {kvs[i][1]} |->
            IF k = kvs[i][1] THEN Trim(kvs[i][2]) ELSE map[k]])

EmptyMap == [k \in {} |-> <<>>]

\* parse_message over the whole read buffer.  The result is PANIC where the
\* code unwraps a None or indexes out of bounds, and otherwise the message:
\* tag "Method" (with method and route) or "Status" (with the status text).
\* An Option<String> is a sequence of no element (None) or one (Some).
parse_message(buffer) ==
  LET content == Split(buffer, CRLFCRLF)
      c0 == content[1]
      tokens == SplitWhitespace(c0)
      isResponse == StartsWith(c0, S_HTTP)
      \* chunk.nth(1).unwrap_or("/") and then chunk.next().unwrap()
      route == IF Len(tokens) >= 2 THEN tokens[2] ELSE S_SLASH
      version == IF isResponse THEN HttpVersion_from_str(c0)
                 ELSE IF Len(tokens) >= 3 THEN HttpVersion_from_str(tokens[3])
                 ELSE "panic"
      kvs == HeaderLines(c0)
  IN  IF version = "panic" THEN PANIC
      \* first_line.next() is None only for a start of no tokens, and then
      \* the version lookup above has already panicked
      ELSE IF Len(tokens) = 0 THEN [kind |-> "err"]
      ELSE IF tokens[1] \notin {S_GET, S_POST, S_PUT, S_DELETE, S_CONNECT, S_HEAD}
              /\ Len(tokens) < 2 THEN PANIC
      ELSE IF \E i \in 1..Len(kvs) : Len(kvs[i]) < 2 THEN PANIC
      ELSE IF Len(content) < 2 THEN PANIC
      ELSE [kind |-> "ok",
            tag |-> IF tokens[1] \in {S_GET, S_POST, S_PUT, S_DELETE, S_CONNECT, S_HEAD}
                    THEN "Method" ELSE "Status",
            version |-> version,
            method |-> tokens[1],
            route |-> IF tokens[1] \in {S_GET, S_POST, S_PUT, S_DELETE, S_CONNECT}
                      THEN route ELSE <<>>,
            status |-> IF tokens[1] \in {S_GET, S_POST, S_PUT, S_DELETE, S_CONNECT, S_HEAD}
                       THEN <<>> ELSE tokens[2],
            headers |-> InsertHeaders(kvs, 1, EmptyMap),
            body |-> <<TrimMatches(content[2], NUL)>>]

\* HttpMessage::status_code: Some(code) for a response whose status text
\* parses, None (NONE) for a request or an invalid status text
status_code(msg) ==
  IF msg.tag = "Status" THEN StatusCode_from_str(msg.status) ELSE NONE

\* HttpMessage::transfer_encoding: the header's value, or None
S_TRANSFER_ENCODING ==
  <<"T", "r", "a", "n", "s", "f", "e", "r", "-",
    "E", "n", "c", "o", "d", "i", "n", "g">>
S_CHUNKED == <<"c", "h", "u", "n", "k", "e", "d">>
S_HOST == <<"H", "o", "s", "t">>

transfer_encoding(msg) ==
  IF S_TRANSFER_ENCODING \in DOMAIN msg.headers
  THEN <<msg.headers[S_TRANSFER_ENCODING]>>
  ELSE <<>>

\* ---------------------------------------------------------- HTTP serializer
\* the orders in which a HashMap can iterate over the keys of a map
IterationOrders(map) ==
  {o \in [1..Cardinality(DOMAIN map) -> DOMAIN map] :
     \A i, j \in DOMAIN o : i # j => o[i] # o[j]}

\* impl Display for HttpVersion
HttpVersion_fmt(v) == IF v = "V10" THEN S_HTTP10 ELSE S_HTTP11

\* impl Display for HttpMethod: HEAD carries no route
HttpMethod_fmt(msg) ==
  IF msg.method = S_HEAD THEN S_HEAD ELSE msg.method \o <<SP>> \o msg.route

\* impl Display for HttpHeader
HttpHeader_fmt(msg) ==
  IF msg.tag = "Method"
  THEN HttpMethod_fmt(msg) \o <<SP>> \o HttpVersion_fmt(msg.version)
  ELSE msg.status \o <<SP>> \o HttpVersion_fmt(msg.version)

\* headers_str: one "k: v\r\n" per entry, in iteration order o from entry i
RECURSIVE headers_str(_, _, _)
headers_str(map, o, i) ==
  IF i > Len(o) THEN <<>>
  ELSE o[i] \o <<":", SP>> \o map[o[i]] \o CRLF \o headers_str(map, o, i + 1)

\* impl Display for HttpMessage, the map iterated in order o
HttpMessage_fmt(msg, o) ==
  HttpHeader_fmt(msg) \o CRLF \o headers_str(msg.headers, o, 1)
    \o (IF msg.body = <<>> THEN <<>> ELSE msg.body[1]) \o CRLFCRLF

\* ------------------------------------------------------------------- state
VARIABLES
  balancing,        \* BackendPool.balancing_algo, fixed at construction
  alive,            \* Backend.alive of every backend
  byte_traffic,     \* Backend.byte_traffic of every backend
  health_endpoint,  \* whether the backend has a health_endpoint
  next_index,       \* RoundRobinBalancing.next_index
  lock,             \* holder of the pool mutex: Free, Prober or a handler
  p_pc,             \* position of the prober task
  p_i,              \* backend the prober's for loop is at
  p_buffer,         \* bytes the prober has read into its buffer this cycle
  p_seen,           \* what the last completed probe of this cycle observed
  h_pc,             \* position of every handler task
  h_index,          \* index that next_backend returned to the handler
  h_choice,         \* result of the handler's last balancing_algo call
  h_bytes,          \* byte count last passed to increase_byte_traffic
  fresh_calls,      \* the pool's first next_backend results (round-robin)
  rr_run,           \* latest round-robin selections made with all alive,
                    \* or, in the pool driven by one thread, made since the
                    \* last store into an alive flag
  acceptor,         \* Server::accept: its position, its backoff, the waits
                    \* of this call and those of the call before
  codec,            \* a message on its way through Display and parse_message
  conn              \* the sockets and buffers of every handler's connection

\* the variables of the acceptor, of the codec and of the connections
ext == <<acceptor, codec, conn>>

vars == <<balancing, alive, byte_traffic, health_endpoint, next_index, lock,
          p_pc, p_i, p_buffer, p_seen, h_pc, h_index, h_choice, h_bytes,
          fresh_calls, rr_run, ext>>

Free == 0
Prober == -1
UNSET == -2
Handlers == 1..NumHandlers
Backends == DOMAIN alive
PoolLen == Cardinality(DOMAIN alive)
Sizes == 1..MaxBytes
UnitSizes == {1}
Algorithms == {"round-robin", "random", "least-traffic"}
NoProbe == [i |-> NONE, connected |-> FALSE, status |-> NONE]
VOID == <<NONE>>
\* Server::accept at its entry: `let mut backoff = 1` and no wait so far
AcceptEntry == [pc |-> "accept", backoff |-> 1, waits |-> <<>>, last |-> <<>>]
\* no message is in the codec
NoMessage == [pc |-> "none", msg |-> <<>>, bytes |-> <<>>, parsed |-> <<>>]
\* a connection before its handler has read or written anything
NoConn ==
  [request |-> <<>>, host |-> <<>>, upstream |-> <<>>, pending |-> <<>>,
   received |-> <<>>, response_buf |-> <<>>, read_bytes |-> 0,
   client |-> <<>>, connects |-> 0, outcome |-> "open"]

\* ------------------------------------------------------- backend and pool
\* Backend::new, health telling whether a health endpoint is given
Backend_new(health) ==
  [alive |-> FALSE, byte_traffic |-> 0, health_endpoint |-> health]

\* Backend::set_online
set_online(al, i) == [al EXCEPT ![i] = TRUE]

\* a store of the wrong value in set_offline
set_offline_stores_true(al, i) == [al EXCEPT ![i] = TRUE]

\* Backend::set_offline
set_offline(al, i) == [al EXCEPT ![i] = FALSE]

\* a store of the given count into the counter of every backend
increase_every_byte_traffic(tr, i, bytes) == [b \in DOMAIN tr |-> bytes]

\* Backend::increase_byte_traffic: a store of the given count
increase_byte_traffic(tr, i, bytes) == [tr EXCEPT ![i] = bytes]

\* an availability check that compares the flags with false
any_backend_offline(al) == \E b \in DOMAIN al : al[b] = FALSE

\* an availability check that always passes
always_available(al) == TRUE

\* BackendPool::has_backends_available
has_backends_available(al) == \E b \in DOMAIN al : al[b] = TRUE

\* ------------------------------------------------------ balancing policies
\* round-robin that returns the examined index without reading its alive flag
RoundRobin_ignores_alive(cursor, al) ==
  LET index == cursor % Cardinality(DOMAIN al)
  IN  [next_index |-> index + 1, ret |-> index]

\* round-robin that stores the examined index back, so the cursor stays
RoundRobin_no_advance(cursor, al) ==
  LET index == cursor % Cardinality(DOMAIN al)
  IN  [next_index |-> index,
       ret |-> IF al[index] THEN index ELSE NONE]

\* round-robin that increments the cursor before it examines the slot
RoundRobin_preincrement(cursor, al) ==
  LET index == (cursor + 1) % Cardinality(DOMAIN al)
  IN  [next_index |-> index,
       ret |-> IF al[index] THEN index ELSE NONE]

\* round-robin that moves the cursor two slots on
RoundRobin_skips_slot(cursor, al) ==
  LET index == cursor % Cardinality(DOMAIN al)
  IN  [next_index |-> index + 2,
       ret |-> IF al[index] THEN index ELSE NONE]

\* round-robin that moves the cursor only past a backend it returns
RoundRobin_advance_on_some(cursor, al) ==
  LET index == cursor % Cardinality(DOMAIN al)
  IN  [next_index |-> IF al[index] THEN index + 1 ELSE index,
       ret |-> IF al[index] THEN index ELSE NONE]

\* RoundRobinBalancing::next_backend: the examined index, the stored cursor
\* and the returned Option
RoundRobin_next_backend(cursor, al) ==
  LET index == cursor % Cardinality(DOMAIN al)
  IN  [next_index |-> index + 1,
       ret |-> IF al[index] THEN index ELSE NONE]

\* RandomBalancing::next_backend with r the number gen_range produced
Random_next_backend(r, al) == IF al[r] THEN r ELSE NONE

\* a fold that also replaces the running minimum by an equal key, which
\* is what max_by_key does for the maximum
RECURSIVE min_by_key_last(_, _, _)
min_by_key_last(tr, i, best) ==
  IF i >= Cardinality(DOMAIN tr) THEN best
  ELSE min_by_key_last(tr, i + 1, IF tr[i] <= tr[best] THEN i ELSE best)

\* Iterator::min_by_key over the enumerated backends: a left fold that
\* replaces the running minimum only by a strictly smaller key
RECURSIVE min_by_key(_, _, _)
min_by_key(tr, i, best) ==
  IF i >= Cardinality(DOMAIN tr) THEN best
  ELSE min_by_key(tr, i + 1, IF tr[i] < tr[best] THEN i ELSE best)

\* LeastTrafficBalancing::next_backend
LeastTraffic_next_backend(al, tr) ==
  LET index == min_by_key(tr, 1, 0)
  IN  IF al[index] THEN index ELSE NONE

\* the dynamic dispatch self.balancing_algo.next_backend(&self.backends)
balancing_next_backend(algo, cursor, r, al, tr) ==
  IF algo = "round-robin" THEN RoundRobin_next_backend(cursor, al)
  ELSE IF algo = "random"
       THEN [next_index |-> cursor, ret |-> Random_next_backend(r, al)]
       ELSE [next_index |-> cursor, ret |-> LeastTraffic_next_backend(al, tr)]

\* ----------------------------------------------------- initial conditions
\* Backend::new for every configured backend, wrapped by
\* BackendPool::from_backends_list and the policy get_balancer returns;
\* every second backend is configured with a health endpoint
InitWith(n, algos) ==
  /\ balancing \in algos
  /\ alive = [b \in 0..(n - 1) |-> Backend_new(b % 2 = 0).alive]
  /\ byte_traffic = [b \in 0..(n - 1) |-> Backend_new(b % 2 = 0).byte_traffic]
  /\ health_endpoint =
       [b \in 0..(n - 1) |-> Backend_new(b % 2 = 0).health_endpoint]
  /\ next_index = 0
  /\ lock = Free
  /\ p_pc = "lock"
  /\ p_i = 0
  /\ p_buffer = <<>>
  /\ p_seen = NoProbe
  /\ h_pc = [h \in Handlers |-> "idle"]
  /\ h_index = [h \in Handlers |-> NONE]
  /\ h_choice = [h \in Handlers |-> UNSET]
  /\ h_bytes = [h \in Handlers |-> 0]
  /\ fresh_calls = <<>>
  /\ rr_run = <<>>

\* the acceptor at the entry of accept, no connection open, the codec idle
InitExt ==
  /\ acceptor = AcceptEntry
  /\ codec = NoMessage
  /\ conn = [h \in Handlers |-> NoConn]

Init == InitWith(N, Algorithms) /\ InitExt

\* ----------------------------------------------------------- health prober
RESP_200 == S_HTTP11 \o <<SP, "2", "0", "0", SP, "O", "K">> \o CRLFCRLF
RESP_503 == S_HTTP11 \o <<SP, "5", "0", "3", SP, "K", "O">> \o CRLFCRLF
\* a peek that returned before the status text arrived
RESP_PARTIAL == S_HTTP11 \o <<SP>>
\* a peek that returned no byte: the upstream closed the connection
RESP_EOF == <<>>
\* what an upstream can answer to the health request
HealthResponses == {RESP_200, RESP_503, RESP_PARTIAL, RESP_EOF}

\* stream.read(&mut buffer[..n]): the n bytes replace the front of the buffer
Overlay(buffer, data) == data \o SubSeq(buffer, Len(data) + 1, Len(buffer))

\* the fixed-size buffer as parse_message sees it: the bytes read so far and
\* then the zero bytes of the initialisation
Padded(buffer) == buffer \o <<NUL>>

\* the end of one iteration of `for backend in pool.iter_mut()`
ProbeAdvance ==
  /\ p_i' = p_i + 1
  /\ p_pc' = "probe"
  /\ UNCHANGED lock

\* the prober task ends with the guard dropped: `?` returned an error
\* ("failed") or an unwrap panicked ("panicked")
ProbeStop(how) ==
  /\ p_pc' = how
  /\ lock' = Free
  /\ p_i' = 0
  /\ p_buffer' = <<>>
  /\ p_seen' = NoProbe

\* probe_backends: self.pool.lock().await at the top of a cycle
probe_lock ==
  /\ p_pc = "lock"
  /\ lock = Free
  /\ lock' = Prober
  /\ p_pc' = "probe"
  /\ p_i' = 0
  /\ p_buffer' = <<>>
  /\ p_seen' = NoProbe
  /\ UNCHANGED <<balancing, alive, byte_traffic, health_endpoint, next_index,
                 h_pc, h_index, h_choice, h_bytes, fresh_calls, rr_run, ext>>

\* probe_backends: TcpStream::connect to the backend the loop is at, and
\* the two arms that need no request: Err(_) and a backend without endpoint
probe_connect ==
  /\ p_pc = "probe"
  /\ p_i < PoolLen
  /\ \E connected \in BOOLEAN :
       IF ~connected
       THEN /\ alive' = set_offline(alive, p_i)
            /\ p_seen' = [i |-> p_i, connected |-> FALSE, status |-> NONE]
            /\ ProbeAdvance
       ELSE IF ~health_endpoint[p_i]
       THEN /\ alive' = set_online(alive, p_i)
            /\ p_seen' = [i |-> p_i, connected |-> TRUE, status |-> NONE]
            /\ ProbeAdvance
       ELSE /\ p_pc' = "health"
            /\ UNCHANGED <<alive, p_seen, p_i, lock>>
  /\ UNCHANGED <<balancing, byte_traffic, health_endpoint, next_index,
                 p_buffer, h_pc, h_index, h_choice, h_bytes, fresh_calls,
                 rr_run, ext>>

\* probe_backends: the health request.  write_all, peek or read can fail,
\* and `?` then returns from the task; otherwise the response is read over
\* the front of the buffer and the whole buffer is parsed and unwrapped
probe_health ==
  /\ p_pc = "health"
  /\ \/ /\ ProbeStop("failed")
        /\ UNCHANGED alive
     \/ \E resp \in HealthResponses :
          LET buffer == Overlay(p_buffer, resp)
              response == parse_message(Padded(buffer))
          IN  IF response.kind # "ok"
              THEN /\ ProbeStop("panicked")
                   /\ UNCHANGED alive
              ELSE /\ p_buffer' = buffer
                   /\ alive' = IF status_code(response) = 200
                                THEN set_online(alive, p_i)
                                ELSE set_offline(alive, p_i)
                   /\ p_seen' = [i |-> p_i, connected |-> TRUE,
                                 status |-> status_code(response)]
                   /\ ProbeAdvance
  /\ UNCHANGED <<balancing, byte_traffic, health_endpoint, next_index,
                 h_pc, h_index, h_choice, h_bytes, fresh_calls, rr_run, ext>>

\* a prober whose guard is declared outside the scope, and so survives it
probe_unlock_keeps_lock ==
  /\ p_pc = "probe"
  /\ p_i >= PoolLen
  /\ p_pc' = "sleep"
  /\ p_i' = 0
  /\ p_buffer' = <<>>
  /\ p_seen' = NoProbe
  /\ UNCHANGED <<balancing, alive, byte_traffic, health_endpoint, next_index,
                 lock, h_pc, h_index, h_choice, h_bytes, fresh_calls, rr_run,
                 ext>>

\* probe_backends: the for loop is over and the scope ends, which drops the
\* guard; the task goes to sleep in delay_for(TIMEOUT)
probe_unlock ==
  /\ p_pc = "probe"
  /\ p_i >= PoolLen
  /\ p_pc' = "sleep"
  /\ lock' = Free
  /\ p_i' = 0
  /\ p_buffer' = <<>>
  /\ p_seen' = NoProbe
  /\ UNCHANGED <<balancing, alive, byte_traffic, health_endpoint, next_index,
                 h_pc, h_index, h_choice, h_bytes, fresh_calls, rr_run, ext>>

\* probe_backends: delay_for(TIMEOUT) elapses and the loop starts over
probe_wake ==
  /\ p_pc = "sleep"
  /\ p_pc' = "lock"
  /\ UNCHANGED <<balancing, alive, byte_traffic, health_endpoint, next_index,
                 lock, p_i, p_buffer, p_seen, h_pc, h_index, h_choice,
                 h_bytes, fresh_calls, rr_run, ext>>

\* ------------------------------------------------------ connection handler
\* the task ends (return, `?` or panic): the guard is dropped with it
Leave(h) ==
  /\ lock' = Free
  /\ h_pc' = [h_pc EXCEPT ![h] = "idle"]
  /\ h_index' = [h_index EXCEPT ![h] = NONE]
  /\ h_choice' = [h_choice EXCEPT ![h] = UNSET]
  /\ h_bytes' = [h_bytes EXCEPT ![h] = 0]

\* Server::run: a connection is accepted and a handler task is spawned
run_spawn(h) ==
  /\ h_pc[h] = "idle"
  /\ h_pc' = [h_pc EXCEPT ![h] = "lock"]
  /\ UNCHANGED <<balancing, alive, byte_traffic, health_endpoint, next_index,
                 lock, p_pc, p_i, p_buffer, p_seen, h_index, h_choice,
                 h_bytes, fresh_calls, rr_run, ext>>

\* a handler that goes on without waiting for the mutex
handle_connection_no_wait(h) ==
  /\ h_pc[h] = "lock"
  /\ lock' = h
  /\ h_pc' = [h_pc EXCEPT ![h] = "peek"]
  /\ UNCHANGED <<balancing, alive, byte_traffic, health_endpoint, next_index,
                 p_pc, p_i, p_buffer, p_seen, h_index, h_choice, h_bytes,
                 fresh_calls, rr_run, ext>>

\* handle_connection: self.pool.lock().await
handle_connection_lock(h) ==
  /\ h_pc[h] = "lock"
  /\ lock = Free
  /\ lock' = h
  /\ h_pc' = [h_pc EXCEPT ![h] = "peek"]
  /\ UNCHANGED <<balancing, alive, byte_traffic, health_endpoint, next_index,
                 p_pc, p_i, p_buffer, p_seen, h_index, h_choice, h_bytes,
                 fresh_calls, rr_run, ext>>

\* handle_connection: peek and read of the client's request; either can
\* fail, and `?` then returns
handle_connection_read(h) ==
  /\ h_pc[h] = "peek"
  /\ \/ /\ h_pc' = [h_pc EXCEPT ![h] = "select"]
        /\ UNCHANGED <<lock, h_index, h_choice, h_bytes>>
     \/ Leave(h)
  /\ UNCHANGED <<balancing, alive, byte_traffic, health_endpoint, next_index,
                 p_pc, p_i, p_buffer, p_seen, fresh_calls, rr_run, ext>>

\* BackendPool::next_backend, one iteration of its loop per step: leave with
\* Err(NoBackendAlive) when no backend is available, else ask the policy
\* and leave with Ok(i) on Some(i)
pool_next_backend(h) ==
  /\ h_pc[h] = "select"
  /\ IF ~has_backends_available(alive)
     THEN /\ h_pc' = [h_pc EXCEPT ![h] = "err"]
          /\ UNCHANGED <<next_index, h_index, h_choice>>
     ELSE \E r \in Backends :
            LET res == balancing_next_backend(balancing, next_index, r,
                                              alive, byte_traffic)
            IN  /\ next_index' = res.next_index
                /\ h_choice' = [h_choice EXCEPT ![h] = res.ret]
                /\ IF res.ret # NONE
                   THEN /\ h_index' = [h_index EXCEPT ![h] = res.ret]
                        /\ h_pc' = [h_pc EXCEPT ![h] = "selected"]
                   ELSE UNCHANGED <<h_index, h_pc>>
  /\ UNCHANGED <<balancing, alive, byte_traffic, health_endpoint, lock, p_pc,
                 p_i, p_buffer, p_seen, h_bytes>>

\* handle_connection: the Err(e) arm, stream.shutdown and return Err
handle_connection_no_backend(h) ==
  /\ h_pc[h] = "err"
  /\ Leave(h)
  /\ UNCHANGED <<balancing, alive, byte_traffic, health_endpoint, next_index,
                 p_pc, p_i, p_buffer, p_seen, fresh_calls, rr_run, ext>>

\* handle_request: the request is parsed and unwrapped, its Host header is
\* replaced, and the upstream is connected; a panic or `?` ends the task
handle_request_connect(h) ==
  /\ h_pc[h] = "selected"
  /\ \/ /\ h_pc' = [h_pc EXCEPT ![h] = "write"]
        /\ UNCHANGED <<lock, h_index, h_choice, h_bytes>>
     \/ Leave(h)
  /\ UNCHANGED <<balancing, alive, byte_traffic, health_endpoint, next_index,
                 p_pc, p_i, p_buffer, p_seen, fresh_calls, rr_run, ext>>

\* handle_request: stream.write of the request and
\* backend.increase_byte_traffic(bytesout); sizes are the byte counts the
\* socket can report
handle_request_write(h, sizes) ==
  /\ h_pc[h] = "write"
  /\ \/ \E bytesout \in sizes :
          /\ byte_traffic' = increase_byte_traffic(byte_traffic, h_index[h], bytesout)
          /\ h_bytes' = [h_bytes EXCEPT ![h] = bytesout]
          /\ h_pc' = [h_pc EXCEPT ![h] = "read"]
          /\ UNCHANGED <<lock, h_index, h_choice>>
     \/ Leave(h) /\ UNCHANGED byte_traffic
  /\ UNCHANGED <<balancing, alive, health_endpoint, next_index, p_pc, p_i,
                 p_buffer, p_seen, fresh_calls, rr_run, ext>>

\* handle_request: the response is read (with the further reads of a
\* chunked body), parsed and unwrapped, and
\* backend.increase_byte_traffic(read_bytes); sizes are the byte counts the
\* socket can report
handle_request_read(h, sizes) ==
  /\ h_pc[h] = "read"
  /\ \/ \E read_bytes \in sizes :
          /\ byte_traffic' = increase_byte_traffic(byte_traffic, h_index[h], read_bytes)
          /\ h_bytes' = [h_bytes EXCEPT ![h] = read_bytes]
          /\ h_pc' = [h_pc EXCEPT ![h] = "reply"]
          /\ UNCHANGED <<lock, h_index, h_choice>>
     \/ Leave(h) /\ UNCHANGED byte_traffic
  /\ UNCHANGED <<balancing, alive, health_endpoint, next_index, p_pc, p_i,
                 p_buffer, p_seen, fresh_calls, rr_run, ext>>

\* handle_connection: stream.write_all of the response and return
handle_connection_reply(h) ==
  /\ h_pc[h] = "reply"
  /\ Leave(h)
  /\ UNCHANGED <<balancing, alive, byte_traffic, health_endpoint, next_index,
                 p_pc, p_i, p_buffer, p_seen, fresh_calls, rr_run, ext>>

\* --------------------------------------- the bytes of a forwarded request
\* size of the handler's read buffers
BUFSIZE == 2048

\* Backend.addr of the configured backends: 10.0.0.<b + 1>:80
backend_addr(b) ==
  <<"1", "0", ".", "0", ".", "0", ".", Digits[b + 2], ":", "8", "0">>

\* the Host value the clients send
CLIENT_HOST == <<"p", "x">>
\* a route as long as the one of the liveness endpoint
S_ROUTE == <<"/", "o", "r", "d", "e", "r", "s">>
S_START_GET == S_GET \o <<SP>> \o S_ROUTE \o <<SP>> \o S_HTTP11
HostLine(v) == S_HOST \o <<":", SP>> \o v
\* the request line of the proxy's own liveness endpoint
HEALTHCHECK_HEADER ==
  S_GET \o <<SP, "/", "h", "e", "a", "l", "t", "h", SP>> \o S_HTTP11 \o CRLF

REQ_GET == S_START_GET \o CRLF \o HostLine(CLIENT_HOST) \o CRLFCRLF
REQ_GET_PORT ==
  S_START_GET \o CRLF \o HostLine(CLIENT_HOST \o <<":", "8", "1">>) \o CRLFCRLF
REQ_HEALTH == HEALTHCHECK_HEADER \o HostLine(CLIENT_HOST) \o CRLFCRLF
\* a peek that returned no byte
REQ_EMPTY == <<>>
REQ_GARBAGE == <<"x">>
REQ_NO_VERSION == S_GET \o <<SP>> \o S_SLASH \o CRLFCRLF
REQ_NO_COLON == S_START_GET \o CRLF \o S_HOST \o CRLFCRLF
REQ_NO_HOST == S_START_GET \o CRLFCRLF

\* what a client can send
ClientInputs ==
  {REQ_GET_PORT, REQ_HEALTH, REQ_EMPTY, REQ_GARBAGE, REQ_NO_VERSION,
   REQ_NO_COLON, REQ_NO_HOST}
\* one well-formed request
PlainRequests == {REQ_GET}

S_STATUS_200 == S_HTTP11 \o <<SP, "2", "0", "0", SP, "O", "K">>
CHUNK_HEAD ==
  S_STATUS_200 \o CRLF \o S_TRANSFER_ENCODING \o <<":", SP>> \o S_CHUNKED
    \o CRLFCRLF
CHUNK_DATA == <<"1", CR, LF, "a", CR, LF>>
\* the end of a chunked body: b"0\r\n\r\n"
TERMINATOR == <<"0", CR, LF, CR, LF>>

\* an upstream's response as the segments in which it reaches the socket
UP_PLAIN == <<S_STATUS_200 \o CRLFCRLF \o <<"o", "k">>>>
UP_CHUNKED_WHOLE == <<CHUNK_HEAD \o CHUNK_DATA \o TERMINATOR>>
UP_CHUNKED_SPLIT == <<CHUNK_HEAD \o CHUNK_DATA, TERMINATOR>>
\* the upstream closes the connection before the terminator
UP_CHUNKED_TRUNCATED == <<CHUNK_HEAD \o CHUNK_DATA>>
UP_GARBAGE == <<REQ_GARBAGE>>
\* the upstream closes without sending a byte
UP_EOF == <<>>
UpstreamResponses ==
  {UP_PLAIN, UP_CHUNKED_WHOLE, UP_CHUNKED_SPLIT, UP_CHUNKED_TRUNCATED,
   UP_GARBAGE, UP_EOF}
\* the responses without Transfer-Encoding
PlainResponses == {UP_PLAIN, UP_EOF}

\* byte i (from 1) of a zero-initialised buffer of which buf has been written
BufGet(buf, i) == IF i <= Len(buf) THEN buf[i] ELSE NUL

\* buf[a..b]
Slice(buf, a, b) == [i \in 1..(b - a) |-> BufGet(buf, a + i)]

\* a read of data into buf[off..]
WriteAt(buf, off, data) ==
  LET end == IF Len(buf) > off + Len(data) THEN Len(buf) ELSE off + Len(data)
  IN  [i \in 1..end |->
         IF i > off /\ i <= off + Len(data) THEN data[i - off] ELSE BufGet(buf, i)]

\* the first n bytes of what the socket holds, or all of it
Take(data, n) == SubSeq(data, 1, IF n < Len(data) THEN n ELSE Len(data))

\* a Host rewrite that leaves the client's value in place
set_host_keeps_client(headers, value) == headers

\* *request.headers.get_mut("Host").unwrap() = value
set_host(headers, value) == [headers EXCEPT ![S_HOST] = value]

\* the function returns (Ok, Err through `?`, or a panic that unwinds) with
\* connection record c; its locals, the guard among them, are dropped next
Return(h, c, how) ==
  /\ h_pc' = [h_pc EXCEPT ![h] = "closed"]
  /\ conn' = [conn EXCEPT ![h] = [c EXCEPT !.outcome = how]]

\* handle_connection: peek and read of the client's bytes, which are among
\* inputs
handle_connection_peek(h, inputs) ==
  /\ h_pc[h] = "peek"
  /\ \/ \E request \in inputs :
          /\ conn' = [conn EXCEPT ![h].request = request]
          /\ h_pc' = [h_pc EXCEPT ![h] = "select"]
     \/ Return(h, conn[h], "client-error")
  /\ UNCHANGED <<balancing, alive, byte_traffic, health_endpoint, next_index,
                 lock, p_pc, p_i, p_buffer, p_seen, h_index, h_choice,
                 h_bytes, fresh_calls, rr_run, acceptor, codec>>

\* handle_connection: one iteration of pool.next_backend()
handle_connection_next_backend(h) ==
  pool_next_backend(h) /\ UNCHANGED <<fresh_calls, rr_run, ext>>

\* an Err arm that answers 503 to the client before it closes the stream
handle_connection_shutdown_replies(h) ==
  /\ h_pc[h] = "err"
  /\ Return(h, [conn[h] EXCEPT !.client = RESP_503], "no-backend")
  /\ UNCHANGED <<balancing, alive, byte_traffic, health_endpoint, next_index,
                 lock, p_pc, p_i, p_buffer, p_seen, h_index, h_choice,
                 h_bytes, fresh_calls, rr_run, acceptor, codec>>

\* handle_connection: the Err(e) arm, stream.shutdown(Shutdown::Both) and
\* return Err
handle_connection_shutdown(h) ==
  /\ h_pc[h] = "err"
  /\ Return(h, conn[h], "no-backend")
  /\ UNCHANGED <<balancing, alive, byte_traffic, health_endpoint, next_index,
                 lock, p_pc, p_i, p_buffer, p_seen, h_index, h_choice,
                 h_bytes, fresh_calls, rr_run, acceptor, codec>>

\* handle_request: parse_message(buffer).unwrap(), the Host header and
\* TcpStream::connect
handle_request_parse(h) ==
  /\ h_pc[h] = "selected"
  /\ LET request == parse_message(Padded(conn[h].request))
     IN  IF request.kind # "ok" THEN Return(h, conn[h], "panic")
         ELSE IF S_HOST \notin DOMAIN request.headers
         THEN Return(h, conn[h], "panic")
         ELSE LET c == [conn[h] EXCEPT !.host = request.headers[S_HOST],
                                       !.connects = @ + 1]
              IN  \/ /\ h_pc' = [h_pc EXCEPT ![h] = "write"]
                     /\ conn' = [conn EXCEPT ![h] = c]
                  \/ Return(h, c, "upstream-error")
  /\ UNCHANGED <<balancing, alive, byte_traffic, health_endpoint, next_index,
                 lock, p_pc, p_i, p_buffer, p_seen, h_index, h_choice,
                 h_bytes, fresh_calls, rr_run, acceptor, codec>>

\* handle_request: stream.write(format!("{}", request)) of the request with
\* its Host replaced; the socket of a new connection takes the whole message.
\* The upstream then answers with one of responses.
handle_request_forward(h, responses) ==
  /\ h_pc[h] = "write"
  /\ LET parsed == parse_message(Padded(conn[h].request))
         request ==
           [parsed EXCEPT !.headers = set_host(@, backend_addr(h_index[h]))]
     IN  \/ \E o \in IterationOrders(request.headers),
               response \in responses :
               LET bytes == HttpMessage_fmt(request, o)
               IN  /\ byte_traffic' =
                        increase_byte_traffic(byte_traffic, h_index[h], Len(bytes))
                   /\ h_bytes' = [h_bytes EXCEPT ![h] = Len(bytes)]
                   /\ conn' = [conn EXCEPT ![h].upstream = bytes,
                                           ![h].pending = response]
                   /\ h_pc' = [h_pc EXCEPT ![h] = "read"]
          \/ /\ Return(h, conn[h], "upstream-error")
             /\ UNCHANGED <<byte_traffic, h_bytes>>
  /\ UNCHANGED <<balancing, alive, health_endpoint, next_index, lock, p_pc,
                 p_i, p_buffer, p_seen, h_index, h_choice, fresh_calls,
                 rr_run, acceptor, codec>>

\* the end of handle_request: increase_byte_traffic(read_bytes), shutdown
\* and the whole buffer returned as the response
RequestDone(h, c) ==
  /\ byte_traffic' = increase_byte_traffic(byte_traffic, h_index[h], c.read_bytes)
  /\ h_bytes' = [h_bytes EXCEPT ![h] = c.read_bytes]
  /\ h_pc' = [h_pc EXCEPT ![h] = "reply"]
  /\ conn' = [conn EXCEPT ![h] = c]

\* handle_request: the first peek and read of the response and its parse
handle_request_response(h) ==
  /\ h_pc[h] = "read"
  /\ \/ LET avail == IF conn[h].pending = <<>> THEN <<>>
                     ELSE Head(conn[h].pending)
            data == Take(avail, BUFSIZE)
            c == [conn[h] EXCEPT
                    !.response_buf = data,
                    !.read_bytes = Len(data),
                    !.received = data,
                    !.pending = IF conn[h].pending = <<>> THEN <<>>
                                ELSE Tail(conn[h].pending)]
            response == parse_message(Padded(data))
        IN  IF response.kind # "ok"
            THEN Return(h, c, "panic") /\ UNCHANGED <<byte_traffic, h_bytes>>
            ELSE IF transfer_encoding(response) = <<S_CHUNKED>>
            THEN /\ conn' = [conn EXCEPT ![h] = c]
                 /\ h_pc' = [h_pc EXCEPT ![h] = "chunked"]
                 /\ UNCHANGED <<byte_traffic, h_bytes>>
            ELSE RequestDone(h, c)
     \/ /\ Return(h, conn[h], "upstream-error")
        /\ UNCHANGED <<byte_traffic, h_bytes>>
  /\ UNCHANGED <<balancing, alive, health_endpoint, next_index, lock, p_pc,
                 p_i, p_buffer, p_seen, h_index, h_choice, fresh_calls,
                 rr_run, acceptor, codec>>

\* handle_request: the test of the while loop and, when it passes, one run
\* of its body: a peek into response_buf[..read_bytes], read_bytes += the
\* count, and a read into response_buf[read_bytes..].  At end of stream the
\* peek returns 0 and the body changes nothing.
handle_request_chunked(h) ==
  /\ h_pc[h] = "chunked"
  /\ LET c == conn[h]
         avail == Head(c.pending)
         peeked == Take(avail, c.read_bytes)
         read_bytes == c.read_bytes + Len(peeked)
         data == Take(avail, BUFSIZE - read_bytes)
         rest == SubSeq(avail, Len(data) + 1, Len(avail))
     IN  IF c.read_bytes < 5
         THEN Return(h, c, "panic") /\ UNCHANGED <<byte_traffic, h_bytes>>
         ELSE IF Slice(c.response_buf, c.read_bytes - 5, c.read_bytes) = TERMINATOR
         THEN RequestDone(h, c)
         ELSE \/ /\ c.pending # <<>>
                 /\ UNCHANGED <<byte_traffic, h_bytes>>
                 /\ IF read_bytes > BUFSIZE
                    THEN Return(h, c, "panic")
                    ELSE /\ conn' = [conn EXCEPT ![h] = [c EXCEPT
                              !.response_buf =
                                 WriteAt(Overlay(c.response_buf, peeked),
                                         read_bytes, data),
                              !.read_bytes = read_bytes,
                              !.received = c.received \o data,
                              !.pending = IF rest = <<>> THEN Tail(c.pending)
                                          ELSE <<rest>> \o Tail(c.pending)]]
                         /\ UNCHANGED h_pc
              \/ /\ Return(h, c, "upstream-error")
                 /\ UNCHANGED <<byte_traffic, h_bytes>>
  /\ UNCHANGED <<balancing, alive, health_endpoint, next_index, lock, p_pc,
                 p_i, p_buffer, p_seen, h_index, h_choice, fresh_calls,
                 rr_run, acceptor, codec>>

\* handle_connection: stream.write_all(response.as_bytes()) and Ok(()); the
\* response is the whole of response_buf, &response_buf[..]
handle_connection_write_all(h) ==
  /\ h_pc[h] = "reply"
  /\ \/ Return(h, [conn[h] EXCEPT
                     !.client = Slice(conn[h].response_buf, 0, BUFSIZE)],
               "served")
     \/ Return(h, conn[h], "client-error")
  /\ UNCHANGED <<balancing, alive, byte_traffic, health_endpoint, next_index,
                 lock, p_pc, p_i, p_buffer, p_seen, h_index, h_choice,
                 h_bytes, fresh_calls, rr_run, acceptor, codec>>

\* handle_connection is left: the guard and the client's stream are dropped
handle_connection_drop(h) ==
  /\ h_pc[h] = "closed"
  /\ Leave(h)
  /\ conn' = [conn EXCEPT ![h] = NoConn]
  /\ UNCHANGED <<balancing, alive, byte_traffic, health_endpoint, next_index,
                 p_pc, p_i, p_buffer, p_seen, fresh_calls, rr_run, acceptor,
                 codec>>

\* ---------------------------------------------------------------- acceptor
\* a test that gives up one failure early
gives_up_at_64(backoff) == backoff >= 64

\* a test that gives up at the sixth failure, after the wait of 16 s
gives_up_at_sixth(backoff) == backoff > 16

\* Server::accept: `if backoff > 64`, the accept has failed too many times
too_many_failures(backoff) == backoff > 64

\* Server::accept: listener.accept() returns an error; the error is returned
\* when the backoff has passed 64 and is followed by a pause otherwise
accept_err ==
  /\ acceptor.pc = "accept"
  /\ acceptor' = [acceptor EXCEPT
                    !.pc = IF too_many_failures(acceptor.backoff)
                           THEN "fatal" ELSE "delay"]
  /\ UNCHANGED <<balancing, alive, byte_traffic, health_endpoint, next_index,
                 lock, p_pc, p_i, p_buffer, p_seen, h_pc, h_index, h_choice,
                 h_bytes, fresh_calls, rr_run, codec, conn>>

\* Server::accept: time::delay_for(Duration::from_secs(backoff)) elapses and
\* the backoff is doubled
accept_delay ==
  /\ acceptor.pc = "delay"
  /\ acceptor' = [acceptor EXCEPT
                    !.pc = "accept",
                    !.waits = Append(@, acceptor.backoff),
                    !.backoff = @ * 2]
  /\ UNCHANGED <<balancing, alive, byte_traffic, health_endpoint, next_index,
                 lock, p_pc, p_i, p_buffer, p_seen, h_pc, h_index, h_choice,
                 h_bytes, fresh_calls, rr_run, codec, conn>>

\* Server::accept returns Ok(socket); Server::run spawns the handler task
\* and calls accept again, which starts with backoff = 1
accept_ok(h) ==
  /\ acceptor.pc = "accept"
  /\ h_pc[h] = "idle"
  /\ h_pc' = [h_pc EXCEPT ![h] = "lock"]
  /\ acceptor' = [AcceptEntry EXCEPT !.last = acceptor.waits]
  /\ UNCHANGED <<balancing, alive, byte_traffic, health_endpoint, next_index,
                 lock, p_pc, p_i, p_buffer, p_seen, h_index, h_choice,
                 h_bytes, fresh_calls, rr_run, codec, conn>>

\* ------------------------------------------------------------------- codec
\* the request messages that are serialized: HttpMessage values with every
\* method, two routes, both versions, no, one or two headers, and no body
\* or a body
Methods == {S_GET, S_POST, S_PUT, S_DELETE, S_CONNECT, S_HEAD}
Routes == {S_SLASH, S_ROUTE}
HeaderMaps ==
  {EmptyMap, S_HOST :> CLIENT_HOST,
   S_HOST :> CLIENT_HOST @@ <<"A">> :> <<"b">>}
Bodies == {<<>>, <<<<"h", "i">>>>}
Messages ==
  {[kind |-> "ok", tag |-> "Method", version |-> v, method |-> m,
    route |-> IF m = S_HEAD THEN <<>> ELSE r, status |-> <<>>,
    headers |-> hm, body |-> b] :
     v \in {"V10", "V11"}, m \in Methods, r \in Routes, hm \in HeaderMaps,
     b \in Bodies}

\* byte strings handed to parse_message as they are
RAW_UNKNOWN_METHOD ==
  <<"F", "O", "O", SP>> \o S_SLASH \o <<SP>> \o S_HTTP11 \o CRLFCRLF
RAW_LOWER_CASE ==
  <<"g", "e", "t", SP>> \o S_SLASH \o <<SP>> \o S_HTTP11 \o CRLFCRLF
RawInputs ==
  {RAW_UNKNOWN_METHOD, RAW_LOWER_CASE, REQ_GET, REQ_NO_VERSION, REQ_EMPTY,
   RESP_200}

\* a message to serialize or a byte string to parse
InitCodec ==
  /\ InitWith(N, {"round-robin"})
  /\ acceptor = AcceptEntry
  /\ conn = [h \in Handlers |-> NoConn]
  /\ \/ \E m \in Messages :
          codec = [NoMessage EXCEPT !.pc = "message", !.msg = m]
     \/ \E b \in RawInputs :
          codec = [NoMessage EXCEPT !.pc = "raw", !.bytes = b]

\* format!("{}", message)
codec_fmt ==
  /\ codec.pc = "message"
  /\ \E o \in IterationOrders(codec.msg.headers) :
       codec' = [codec EXCEPT !.pc = "bytes",
                              !.bytes = HttpMessage_fmt(codec.msg, o)]
  /\ UNCHANGED <<balancing, alive, byte_traffic, health_endpoint, next_index,
                 lock, p_pc, p_i, p_buffer, p_seen, h_pc, h_index, h_choice,
                 h_bytes, fresh_calls, rr_run, acceptor, conn>>

\* parse_message(bytes)
codec_parse ==
  /\ codec.pc \in {"bytes", "raw"}
  /\ codec' = [codec EXCEPT
                 !.pc = IF codec.pc = "raw" THEN "raw-parsed" ELSE "parsed",
                 !.parsed = parse_message(codec.bytes)]
  /\ UNCHANGED <<balancing, alive, byte_traffic, health_endpoint, next_index,
                 lock, p_pc, p_i, p_buffer, p_seen, h_pc, h_index, h_choice,
                 h_bytes, fresh_calls, rr_run, acceptor, conn>>

\* ------------------------------------------------------------ bookkeeping
\* the latest selections made one after the other with all backends alive,
\* as left by the step of handler h
RecordRun(h) ==
  IF h_pc'[h] = "selected"
  THEN IF \E b \in Backends : ~alive[b] THEN <<>>
       ELSE LET run == Append(rr_run, h_index'[h])
            IN  IF Len(run) > MaxK * PoolLen THEN Tail(run) ELSE run
  ELSE IF h_pc'[h] = "err" THEN <<>> ELSE rr_run

\* the first TestPoolSize results of next_backend, kept while every call was
\* made with all backends alive and VOID from then on
RecordFresh(ret) ==
  IF fresh_calls = VOID \/ Len(fresh_calls) >= TestPoolSize THEN fresh_calls
  ELSE IF \A b \in Backends : alive[b] THEN Append(fresh_calls, ret) ELSE VOID

\* --------------------------------------------------------------- the tests
\* tests/backend.rs and tests/balancing.rs drive a pool from one thread:
\* they store into a backend's alive flag and call next_backend
test_store_alive ==
  /\ h_pc[1] = "idle"
  /\ \E b \in Backends, v \in BOOLEAN : alive' = [alive EXCEPT ![b] = v]
  /\ UNCHANGED <<balancing, byte_traffic, health_endpoint, next_index, lock,
                 p_pc, p_i, p_buffer, p_seen, h_pc, h_index, h_choice,
                 h_bytes, fresh_calls, rr_run, ext>>

\* pool.next_backend() is entered
test_call ==
  /\ h_pc[1] = "idle"
  /\ h_pc' = [h_pc EXCEPT ![1] = "select"]
  /\ UNCHANGED <<balancing, alive, byte_traffic, health_endpoint, next_index,
                 lock, p_pc, p_i, p_buffer, p_seen, h_index, h_choice,
                 h_bytes, fresh_calls, rr_run, ext>>

\* one iteration of the loop of pool.next_backend()
test_next_backend ==
  /\ pool_next_backend(1)
  /\ fresh_calls' = IF h_pc'[1] = "selected" THEN RecordFresh(h_index'[1])
                    ELSE IF h_pc'[1] = "err" THEN RecordFresh(NONE)
                    ELSE fresh_calls
  /\ UNCHANGED <<rr_run, ext>>

\* the result is asserted on and dropped
test_return ==
  /\ h_pc[1] \in {"selected", "err"}
  /\ h_pc' = [h_pc EXCEPT ![1] = "idle"]
  /\ h_index' = [h_index EXCEPT ![1] = NONE]
  /\ h_choice' = [h_choice EXCEPT ![1] = UNSET]
  /\ UNCHANGED <<balancing, alive, byte_traffic, health_endpoint, next_index,
                 lock, p_pc, p_i, p_buffer, p_seen, h_bytes, fresh_calls,
                 rr_run, ext>>

\* rr_algo.next_backend(&backends) called on the policy itself
test_policy_call ==
  /\ h_pc[1] = "idle"
  /\ LET res == RoundRobin_next_backend(next_index, alive)
     IN  /\ next_index' = res.next_index
         /\ fresh_calls' = RecordFresh(res.ret)
  /\ UNCHANGED <<balancing, alive, byte_traffic, health_endpoint, lock, p_pc,
                 p_i, p_buffer, p_seen, h_pc, h_index, h_choice, h_bytes,
                 rr_run, ext>>

\* the thread stores into a backend's alive flag between two calls; the
\* selections remembered were made with the flags as they were
cycle_store_alive ==
  /\ h_pc[1] = "idle"
  /\ \E b \in Backends, v \in BOOLEAN : alive' = [alive EXCEPT ![b] = v]
  /\ rr_run' = <<>>
  /\ UNCHANGED <<balancing, byte_traffic, health_endpoint, next_index, lock,
                 p_pc, p_i, p_buffer, p_seen, h_pc, h_index, h_choice,
                 h_bytes, fresh_calls, ext>>

\* one iteration of the loop of pool.next_backend(), its Ok(i) remembered
cycle_next_backend ==
  /\ pool_next_backend(1)
  /\ rr_run' = IF h_pc'[1] = "selected"
               THEN LET run == Append(rr_run, h_index'[1])
                    IN  IF Len(run) > MaxK * PoolLen THEN Tail(run) ELSE run
               ELSE IF h_pc'[1] = "err" THEN <<>> ELSE rr_run
  /\ UNCHANGED <<fresh_calls, ext>>

\* ----------------------------------------------------------- specification
\* a step of next_backend by a handler of the server
select(h) == pool_next_backend(h) /\ UNCHANGED <<fresh_calls, rr_run, ext>>

\* the step of next_backend in which the policy returns Some(i)
select_some(h) == select(h) /\ h_pc'[h] = "selected"

\* the prober task and the handler tasks, interleaved
Next ==
  \/ probe_lock
  \/ probe_connect
  \/ probe_health
  \/ probe_unlock
  \/ probe_wake
  \/ \E h \in Handlers : run_spawn(h)
  \/ \E h \in Handlers : handle_connection_lock(h)
  \/ \E h \in Handlers : handle_connection_read(h)
  \/ \E h \in Handlers : select(h)
  \/ \E h \in Handlers : handle_connection_no_backend(h)
  \/ \E h \in Handlers : handle_request_connect(h)
  \/ \E h \in Handlers : handle_request_write(h, Sizes)
  \/ \E h \in Handlers : handle_request_read(h, Sizes)
  \/ \E h \in Handlers : handle_connection_reply(h)

Spec == Init /\ [][Next]_vars

\* The tokio runtime keeps polling every spawned task, so a task that can
\* take a step takes it; rand::thread_rng() does not avoid an index forever,
\* so a retry loop that can draw an alive backend eventually draws one.
Fairness ==
  /\ WF_vars(probe_lock \/ probe_connect \/ probe_health \/ probe_unlock
             \/ probe_wake)
  /\ \A h \in Handlers :
       /\ WF_vars(handle_connection_lock(h) \/ handle_connection_read(h)
                  \/ select(h) \/ handle_connection_no_backend(h)
                  \/ handle_request_connect(h)
                  \/ handle_request_write(h, Sizes)
                  \/ handle_request_read(h, Sizes)
                  \/ handle_connection_reply(h))
       /\ WF_vars(select_some(h))

FairSpec == Spec /\ Fairness

\* the server with a round-robin pool, remembering the latest selections;
\* round-robin reads no byte_traffic, so every socket reports one byte
select_recorded(h) ==
  pool_next_backend(h) /\ rr_run' = RecordRun(h)
  /\ UNCHANGED <<fresh_calls, ext>>

NextRR ==
  \/ probe_lock
  \/ probe_connect
  \/ probe_health
  \/ probe_unlock
  \/ probe_wake
  \/ \E h \in Handlers : run_spawn(h)
  \/ \E h \in Handlers : handle_connection_lock(h)
  \/ \E h \in Handlers : handle_connection_read(h)
  \/ \E h \in Handlers : select_recorded(h)
  \/ \E h \in Handlers : handle_connection_no_backend(h)
  \/ \E h \in Handlers : handle_request_connect(h)
  \/ \E h \in Handlers : handle_request_write(h, UnitSizes)
  \/ \E h \in Handlers : handle_request_read(h, UnitSizes)
  \/ \E h \in Handlers : handle_connection_reply(h)

InitRR == InitWith(N, {"round-robin"}) /\ InitExt

SpecRR == InitRR /\ [][NextRR]_vars

\* the test thread on a round-robin pool of TestPoolSize backends
NextPool ==
  \/ test_store_alive
  \/ test_call
  \/ test_next_backend
  \/ test_return
  \/ test_policy_call

InitPool == InitWith(TestPoolSize, {"round-robin"}) /\ InitExt

SpecPool == InitPool /\ [][NextPool]_vars

\* the test thread on the same pool, calling next_backend again and again
\* and changing alive flags between the calls
NextCycle ==
  \/ cycle_store_alive
  \/ test_call
  \/ cycle_next_backend
  \/ test_return

SpecCycle == InitPool /\ [][NextCycle]_vars

\* the server with a round-robin pool and the bytes of every connection;
\* the upstreams answer without Transfer-Encoding, so the loop of the
\* chunked responses is never entered
NextFwd ==
  \/ probe_lock
  \/ probe_connect
  \/ probe_health
  \/ probe_unlock
  \/ probe_wake
  \/ \E h \in Handlers : run_spawn(h)
  \/ \E h \in Handlers : handle_connection_lock(h)
  \/ \E h \in Handlers : handle_connection_peek(h, ClientInputs)
  \/ \E h \in Handlers : handle_connection_next_backend(h)
  \/ \E h \in Handlers : handle_connection_shutdown(h)
  \/ \E h \in Handlers : handle_request_parse(h)
  \/ \E h \in Handlers : handle_request_forward(h, PlainResponses)
  \/ \E h \in Handlers : handle_request_response(h)
  \/ \E h \in Handlers : handle_connection_write_all(h)
  \/ \E h \in Handlers : handle_connection_drop(h)

SpecFwd == InitRR /\ [][NextFwd]_vars

\* the server with a round-robin pool, well-formed requests and every kind
\* of upstream response
NextChunked ==
  \/ probe_lock
  \/ probe_connect
  \/ probe_health
  \/ probe_unlock
  \/ probe_wake
  \/ \E h \in Handlers : run_spawn(h)
  \/ \E h \in Handlers : handle_connection_lock(h)
  \/ \E h \in Handlers : handle_connection_peek(h, PlainRequests)
  \/ \E h \in Handlers : handle_connection_next_backend(h)
  \/ \E h \in Handlers : handle_connection_shutdown(h)
  \/ \E h \in Handlers : handle_request_parse(h)
  \/ \E h \in Handlers : handle_request_forward(h, UpstreamResponses)
  \/ \E h \in Handlers : handle_request_response(h)
  \/ \E h \in Handlers : handle_request_chunked(h)
  \/ \E h \in Handlers : handle_connection_write_all(h)
  \/ \E h \in Handlers : handle_connection_drop(h)

SpecChunked == InitRR /\ [][NextChunked]_vars

\* the accept loop of Server::run and the handlers it spawns, before the
\* first probe cycle: every backend is offline and next_backend returns Err
NextAccept ==
  \/ accept_err
  \/ accept_delay
  \/ \E h \in Handlers : accept_ok(h)
  \/ \E h \in Handlers : handle_connection_lock(h)
  \/ \E h \in Handlers : handle_connection_read(h)
  \/ \E h \in Handlers : select(h)
  \/ \E h \in Handlers : handle_connection_no_backend(h)

SpecAccept == InitRR /\ [][NextAccept]_vars

\* the serializer and the parser applied to messages and byte strings
NextCodec ==
  \/ codec_fmt
  \/ codec_parse

SpecCodec == InitCodec /\ [][NextCodec]_vars

\* ------------------------------------------------------------------ claims
AllAlive == \A b \in Backends : alive[b]
NoneAlive == \A b \in Backends : ~alive[b]

\* C1: whenever next_backend has returned Ok(i) to a handler, i is an index
\* of the pool and backend i is alive at that moment, under every policy
C1_OkIsAlive ==
  \A h \in Handlers :
    h_pc[h] = "selected" => h_index[h] \in Backends /\ alive[h_index[h]]

\* an Ok returned while another backend is offline and after earlier forwards
C1_Witness ==
  \E h \in Handlers :
    /\ h_pc[h] = "selected"
    /\ \E b \in Backends : ~alive[b]
    /\ \E b \in Backends : byte_traffic[b] > 0

\* C2: a handler that is in next_backend while at least one backend is alive
\* eventually gets Ok(i), under every policy
C2_EventuallyOk ==
  \A h \in Handlers :
    (h_pc[h] = "select" /\ ~NoneAlive) ~> (h_pc[h] = "selected")

\* C3: a step of next_backend taken while every backend is offline returns
\* Err(NoBackendAlive) at once: the policy is not asked and nothing loops
C3_AllOffline ==
  [][\A h \in Handlers :
       (select(h) /\ NoneAlive) =>
         /\ h_pc'[h] = "err"
         /\ next_index' = next_index
         /\ h_choice'[h] = UNSET]_vars

\* next_backend has returned Err(NoBackendAlive)
C3_Witness == \E h \in Handlers : h_pc[h] = "err" /\ NoneAlive

\* C4: in any K * N selections made one after the other, by whichever
\* handlers, while all N backends are alive, every index occurs K times
C4_RoundRobinFair ==
  \A k \in 1..MaxK :
    \A s \in 1..Len(rr_run) :
      s + k * PoolLen - 1 <= Len(rr_run) =>
        \A b \in Backends :
          Cardinality({j \in s..(s + k * PoolLen - 1) : rr_run[j] = b}) = k

\* MaxK full cycles have been selected and a second handler waits for the lock
C4_Witness ==
  /\ Len(rr_run) = MaxK * PoolLen
  /\ \E h, g \in Handlers : h_pc[h] = "selected" /\ h_pc[g] = "lock"

\* C5 as stated: on a new round-robin pool of four backends, all alive, the
\* first four calls of next_backend return 1, 2, 3, 0
C5_FirstCallsFromOne ==
  (fresh_calls # VOID /\ Len(fresh_calls) = TestPoolSize) =>
    fresh_calls = <<1, 2, 3, 0>>

\* C5 amended: on a new round-robin pool of four backends, all alive, the
\* first four calls of next_backend return 0, 1, 2, 3
C5_FirstCallsFromZero ==
  fresh_calls # VOID =>
    \A k \in 1..Len(fresh_calls) : fresh_calls[k] = (k - 1) % PoolLen

\* four calls have been made, each with all backends alive
C5_Witness == fresh_calls # VOID /\ Len(fresh_calls) = TestPoolSize

\* C6: least-traffic examines the lowest index among the backends of
\* minimum byte_traffic and returns it iff it is alive, None otherwise
C6_LeastTraffic ==
  \A h \in Handlers :
    (balancing = "least-traffic" /\ h_pc[h] \in {"select", "selected"}
     /\ h_choice[h] # UNSET) =>
      \E m \in Backends :
        /\ \A j \in Backends : byte_traffic[m] <= byte_traffic[j]
        /\ \A j \in Backends : j < m => byte_traffic[j] > byte_traffic[m]
        /\ h_choice[h] = IF alive[m] THEN m ELSE NONE

\* least-traffic has broken a tie between two backends with traffic
C6_Witness ==
  \E h \in Handlers :
    /\ balancing = "least-traffic"
    /\ h_pc[h] = "selected"
    /\ \E b \in Backends :
         b # h_index[h] /\ byte_traffic[b] = byte_traffic[h_index[h]]
         /\ byte_traffic[b] > 0

\* C7: no step decreases the byte_traffic of a backend
C7_TrafficMonotone ==
  [][\A b \in Backends : byte_traffic'[b] >= byte_traffic[b]]_vars

\* C8: each increase_byte_traffic(n) of a forward leaves the counter of the
\* selected backend at its previous value plus n
C8_TrafficAdditive ==
  [][\A h \in Handlers :
       ((handle_request_write(h, Sizes) \/ handle_request_read(h, Sizes))
        /\ h_pc'[h] # "idle") =>
         byte_traffic'[h_index[h]] = byte_traffic[h_index[h]] + h_bytes'[h]]_vars

C10_ProberNeverStops == p_pc \in {"lock", "probe", "health", "sleep"}

\* C11: the bytes written upstream for a request with a Host header hold a
\* Host header line whose value is the address of the backend selected for
\* the connection, no other Host line, and nowhere the client's Host value
C11_HostRewritten ==
  \A h \in Handlers :
    conn[h].upstream # <<>> =>
      LET lines == Split(conn[h].upstream, CRLF)
          rewritten == HostLine(backend_addr(h_index[h]))
      IN  /\ \E i \in 2..Len(lines) : lines[i] = rewritten
          /\ \A i \in 2..Len(lines) :
               StartsWith(lines[i], S_HOST) => lines[i] = rewritten
          /\ Occurrences(conn[h].upstream, CLIENT_HOST) = {}

\* a request whose Host carries a port has been forwarded to backend 1
C11_Witness ==
  \E h \in Handlers :
    /\ conn[h].request = REQ_GET_PORT
    /\ conn[h].upstream # <<>>
    /\ h_index[h] = 1

\* C12: while the handler reads a chunked response, the five bytes its loop
\* tests are the last five bytes received so far; the response it hands
\* back for the client ends with 0 CR LF CR LF and is all the bytes received
C12_ChunkedComplete ==
  \A h \in Handlers :
    LET c == conn[h]
    IN  /\ (h_pc[h] = "chunked" /\ c.read_bytes >= 5) =>
             Slice(c.response_buf, c.read_bytes - 5, c.read_bytes)
               = Slice(c.received, Len(c.received) - 5, Len(c.received))
        /\ (h_pc[h] = "reply" /\ StartsWith(c.received, CHUNK_HEAD)) =>
             /\ Slice(c.received, Len(c.received) - 5, Len(c.received))
                  = TERMINATOR
             /\ TrimMatches(Padded(c.response_buf), NUL) = c.received

\* C13: a connection whose request line is GET /health HTTP/1.1 ends, unless
\* the client's own socket failed, with 200 OK written to the client and
\* without a call of increase_byte_traffic, whatever the backends' liveness
C13_HealthAlwaysOk ==
  \A h \in Handlers :
    (h_pc[h] = "closed" /\ conn[h].outcome # "client-error"
     /\ StartsWith(conn[h].request, HEALTHCHECK_HEADER)) =>
      /\ StartsWith(conn[h].client, RESP_200)
      /\ h_bytes[h] = 0

\* C14: no connection handler ends in a panic, whatever the client sent
C14_NeverPanics == \A h \in Handlers : conn[h].outcome # "panic"

\* C15: within one accept the first wait is 1 s, every further wait is twice
\* the one before and none is longer than 64 s; a failure is followed by a
\* wait unless the last wait was the one of 64 s, and then it is fatal; an
\* accept that follows a successful one starts again with a wait of 1 s
C15_AcceptBackoff ==
  LET w == acceptor.waits
  IN  /\ \A k \in 1..Len(w) :
           w[k] = (IF k = 1 THEN 1 ELSE 2 * w[k - 1]) /\ w[k] <= 64
      /\ acceptor.pc = "fatal" => (w # <<>> /\ w[Len(w)] = 64)
      /\ acceptor.pc = "delay" => (w = <<>> \/ w[Len(w)] < 64)

\* an accept that followed a successful accept with three waits has itself
\* failed for good
C15_Witness == acceptor.pc = "fatal" /\ Len(acceptor.last) = 3

\* C16: a connection that ended because next_backend returned
\* NoBackendAlive, or because the connect to, the write to or the read from
\* the selected backend failed, has had no byte written to the client and
\* at most one upstream connect, none after NoBackendAlive
C16_UnservedIsClosed ==
  \A h \in Handlers :
    (h_pc[h] = "closed"
     /\ conn[h].outcome \in {"no-backend", "upstream-error"}) =>
      /\ conn[h].client = <<>>
      /\ conn[h].connects <= 1
      /\ conn[h].outcome = "no-backend" => conn[h].connects = 0

\* the read from the selected backend failed while another backend was alive
C16_Witness ==
  \E h \in Handlers :
    /\ h_pc[h] = "closed"
    /\ conn[h].outcome = "upstream-error"
    /\ conn[h].upstream # <<>>
    /\ \E b \in Backends : b # h_index[h] /\ alive[b]

\* C17: parsing the bytes the serializer produced for a request message
\* yields a message with the same method, route, version, headers and body
C17_RoundTrip ==
  codec.pc = "parsed" =>
    /\ codec.parsed.kind = "ok"
    /\ codec.parsed.tag = "Method"
    /\ codec.parsed.method = codec.msg.method
    /\ codec.parsed.route = codec.msg.route
    /\ codec.parsed.version = codec.msg.version
    /\ codec.parsed.headers = codec.msg.headers
    /\ codec.parsed.body = codec.msg.body

\* C18: parse_message of bytes that do not begin with HTTP/ and whose first
\* token is none of GET, POST, PUT, DELETE, CONNECT, HEAD fails with
\* ParsingError
C18_UnknownMethodFails ==
  LET tokens == SplitWhitespace(codec.bytes)
  IN  (codec.pc = "raw-parsed"
       /\ tokens # <<>>
       /\ ~StartsWith(codec.bytes, S_HTTP \o <<"/">>)
       /\ tokens[1] \notin {S_GET, S_POST, S_PUT, S_DELETE, S_CONNECT, S_HEAD}) =>
        codec.parsed.kind = "err"

\* C19: a handler that is writing to or reading from the upstream it
\* connected to does not hold the pool lock
C19_NoLockDuringUpstreamIO ==
  \A h \in Handlers : h_pc[h] \in {"write", "read"} => lock # h

\* C20: while the prober is in the sleep between two cycles the pool lock
\* is free or held by a handler
C20_ProberSleepsUnlocked == p_pc = "sleep" => lock \in {Free} \cup Handlers

\* the prober sleeps while one handler holds the lock and another waits
C20_Witness ==
  /\ p_pc = "sleep"
  /\ lock \in Handlers
  /\ \E h \in Handlers : h_pc[h] = "lock"

\* C21: a call of the policy made while at least one backend is alive
\* returns Some(index), under round-robin, random and least-traffic
C21_SomeWhenOneAlive ==
  [][\A h \in Handlers :
       (select(h) /\ ~NoneAlive) => h_choice'[h] # NONE]_vars

\* C22: every call of the round-robin policy, one that returns None
\* included, leaves the cursor at the slot after the one it examined
C22_CursorAdvances ==
  [][(test_policy_call \/ (test_next_backend /\ ~NoneAlive)) =>
       next_index' % PoolLen = ((next_index % PoolLen) + 1) % PoolLen]_vars

\* a call inside next_backend has returned None at an offline slot that is
\* not the first one, while another backend was alive
C22_Witness ==
  /\ h_pc[1] = "select"
  /\ h_choice[1] = NONE
  /\ next_index > 1
  /\ ~NoneAlive

\* C23: a connection whose request parses and has no Host header, and for
\* which a backend was selected, does not end in a panic, and what it has
\* written upstream holds a Host line with the address of that backend
C23_MissingHostAdded ==
  \A h \in Handlers :
    LET request == parse_message(Padded(conn[h].request))
    IN  (h_pc[h] = "closed" /\ h_index[h] # NONE /\ request.kind = "ok"
         /\ S_HOST \notin DOMAIN request.headers) =>
          /\ conn[h].outcome # "panic"
          /\ conn[h].upstream # <<>> =>
               \E i \in 2..Len(Split(conn[h].upstream, CRLF)) :
                 Split(conn[h].upstream, CRLF)[i] =
                   HostLine(backend_addr(h_index[h]))

\* C24: the bytes written to the client of a served connection are the
\* bytes that were read from the upstream, in their order and no others
C24_ResponseVerbatim ==
  \A h \in Handlers :
    (h_pc[h] = "closed" /\ conn[h].outcome = "served") =>
      conn[h].client = conn[h].received

\* the number of the try the acceptor is at, or has just made, in this call
\* of accept: one more than the waits it has completed
AcceptTry == Len(acceptor.waits) + 1

ProberStep ==
  probe_lock \/ probe_connect \/ probe_health \/ probe_unlock \/ probe_wake

\* a step of the task of handler h, from the lock to its return
HandlerStep(h) ==
  \/ handle_connection_lock(h)
  \/ handle_connection_read(h)
  \/ select(h)
  \/ handle_connection_no_backend(h)
  \/ handle_request_connect(h)
  \/ handle_request_write(h, Sizes)
  \/ handle_request_read(h, Sizes)
  \/ handle_connection_reply(h)

\* C26: a step of a handler changes no alive flag and no byte_traffic
\* other than that of the backend the handler selected; a step of the
\* prober changes no byte_traffic and not the round-robin cursor; and
\* nothing else changes an alive flag or a byte_traffic
C26_Frames ==
  [][/\ \A h \in Handlers :
          HandlerStep(h) =>
            /\ alive' = alive
            /\ \A b \in Backends :
                 b # h_index[h] => byte_traffic'[b] = byte_traffic[b]
     /\ ProberStep => (byte_traffic' = byte_traffic /\ next_index' = next_index)
     /\ alive' # alive => ProberStep
     /\ byte_traffic' # byte_traffic => \E h \in Handlers : HandlerStep(h)]_vars

\* a handler has stored the traffic of its backend while another backend,
\* now offline, keeps a different count from an earlier forward
C26_Witness ==
  \E h \in Handlers :
    /\ h_pc[h] = "reply"
    /\ byte_traffic[h_index[h]] = h_bytes[h]
    /\ \E b \in Backends :
         /\ b # h_index[h]
         /\ ~alive[b]
         /\ byte_traffic[b] > 0
         /\ byte_traffic[b] # byte_traffic[h_index[h]]

\* no handler has a backend selected and no byte has been counted
NothingForwarded ==
  /\ \A h \in Handlers : h_pc[h] \notin {"selected", "write", "read", "reply"}
  /\ \A b \in Backends : byte_traffic[b] = 0

\* C27: at startup every backend is offline with byte_traffic 0; and as
\* long as nothing has been forwarded and no backend is online, a step of
\* next_backend returns Err(NoBackendAlive) and nothing is forwarded, so
\* that nothing is forwarded before the prober marks a backend online
C27_OfflineUntilProbed ==
  /\ NoneAlive /\ NothingForwarded
  /\ [][(NoneAlive /\ NothingForwarded) =>
          /\ NothingForwarded'
          /\ \A h \in Handlers : select(h) => h_pc'[h] = "err"]_vars

\* next_backend has returned Err to a handler while the prober waits for
\* the lock and no backend has traffic
C27_Witness ==
  /\ NoneAlive
  /\ NothingForwarded
  /\ p_pc = "lock"
  /\ \E h \in Handlers : h_pc[h] = "err"

\* the alive backends, and the one that follows slot i in cyclic order
AliveSet == {b \in Backends : alive[b]}
NextAlive(i) ==
  CHOOSE b \in AliveSet :
    \A c \in AliveSet :
      ((b - i - 1) % PoolLen) <= ((c - i - 1) % PoolLen)

\* C28: the selections next_backend has made since the alive flags last
\* changed are alive indices, each is the alive index that follows the one
\* before it in cyclic order, and any |A| of them in a row are the |A|
\* alive indices, each once
C28_CyclicOverAlive ==
  LET k == Cardinality(AliveSet)
  IN  /\ \A j \in 1..Len(rr_run) : rr_run[j] \in AliveSet
      /\ \A j \in 1..(Len(rr_run) - 1) : rr_run[j + 1] = NextAlive(rr_run[j])
      /\ \A s \in 1..Len(rr_run) :
           s + k - 1 <= Len(rr_run) =>
             /\ {rr_run[j] : j \in s..(s + k - 1)} = AliveSet
             /\ \A i, j \in s..(s + k - 1) : i # j => rr_run[i] # rr_run[j]

\* MaxK times the pool size selections have been made in a row with two
\* alive backends that are not neighbours
C28_Witness ==
  /\ Len(rr_run) = MaxK * PoolLen
  /\ Cardinality(AliveSet) = 2
  /\ \E b \in AliveSet : (b + 1) % PoolLen \notin AliveSet
                          /\ (b + 2) % PoolLen \in AliveSet

\* the tasks that are between taking the guard and dropping it: the prober
\* inside a cycle, a handler from its read to its return
InsideLock ==
  {t \in {Prober} : p_pc \in {"probe", "health"}}
    \cup {h \in Handlers : h_pc[h] \notin {"idle", "lock"}}

\* C29: at most one task is inside a probe cycle or inside a handler's
\* section from the read of the request to the return, and it is the
\* holder of the mutex; and no alive flag changes in a step taken while a
\* handler has a backend selected and has not returned
C29_MutualExclusion ==
  /\ [](Cardinality(InsideLock) <= 1 /\ \A t \in InsideLock : lock = t)
  /\ [][(\E h \in Handlers : h_pc[h] \in {"selected", "write", "read", "reply"})
          => alive' = alive]_vars

\* a handler reads the upstream's response while the prober and the other
\* handler wait for the mutex
C29_Witness ==
  \E h, g \in Handlers :
    /\ h_pc[h] = "read"
    /\ lock = h
    /\ h_pc[g] = "lock"
    /\ p_pc = "lock"

\* handler h is in the loop of a chunked response at the end of the stream
\* and the test of the loop passes: the peek and the read complete with 0
\* bytes, nothing changes, and the test passes again
Spinning(h) ==
  /\ h_pc[h] = "chunked"
  /\ conn[h].pending = <<>>
  /\ conn[h].read_bytes >= 5
  /\ conn[h].read_bytes <= BUFSIZE
  /\ Slice(conn[h].response_buf, conn[h].read_bytes - 5, conn[h].read_bytes)
       # TERMINATOR

\* C30: a handler is never where it cannot return although every socket
\* operation completes: in the loop of a chunked response with the
\* upstream's stream at its end and the terminator not seen, holding the
\* pool lock
C30_HandlerReturns == \A h \in Handlers : ~Spinning(h)

====
